---- MODULE Spec2Model ----
(***************************************************************************)
(* Continuous windowed capture-and-dispatch pipeline of                    *)
(* transcribe_continuous.py (class ContinuousTranscriber), run on the      *)
(* asyncio event loop.                                                     *)
(*                                                                         *)
(* asyncio is single threaded and cooperative: a coroutine runs from one   *)
(* await that really suspends to the next, and the loop runs woken         *)
(* coroutines in FIFO order.  `ready` is the loop's ready queue; its head  *)
(* is the coroutine that runs next.  Completions of the blocking audio     *)
(* calls (asyncio.to_thread) and of the backend call arrive from outside   *)
(* and append the waiting coroutine to `ready`.                            *)
(*                                                                         *)
(* A frame is identified with its position in the audio stream (1, 2, ..). *)
(* A text is a sequence of words; the empty text is << >>.                 *)
(***************************************************************************)
EXTENDS Naturals, Sequences, FiniteSets

(* Configuration (module constants, lines 40-43), scaled down so that the  *)
(* reachable states can be enumerated.  The source has 16000, 1024, 5, 1,  *)
(* i.e. 15.625 frames per second; here 11/4 = 2.75 frames per second, so   *)
(* that, as in the source, none of the three frame counts is a whole       *)
(* number before int() truncates it.                                       *)
SAMPLE_RATE == 11
CHUNK_SIZE == 4
CHUNK_DURATION == 2
OVERLAP_DURATION == 1

(* Bounds of the exploration. *)
MaxFrames == 16
MaxOverruns == 2

(* self.max_recent_transcriptions, line 65 *)
max_recent_transcriptions == 5

(* Frames delivered in the runs that are interrupted. *)
MaxRunFrames == 10

(* A stub backend gets at most this many calls ahead of its answers. *)
MaxStubLag == 1

(* Chunks the audio callback of transcribe_chirp3.py delivers, and the    *)
(* bytes of one chunk.                                                     *)
MaxChunks == 3
ChunkBytes == 2

(* asyncio.Queue(maxsize=5) of transcribe_live.py, line 145 *)
maxsize == 5

(* Chunks read from the microphone by transcribe_live.py: enough to fill   *)
(* out_queue and leave the producer waiting with one more.                 *)
MaxCaptured == 7

(* The scaled configuration, explored with every fault of the audio source *)
(* and every answer of the backend.                                        *)
ScaledConfig ==
    [SAMPLE_RATE |-> SAMPLE_RATE, CHUNK_SIZE |-> CHUNK_SIZE,
     CHUNK_DURATION |-> CHUNK_DURATION, OVERLAP_DURATION |-> OVERLAP_DURATION,
     frames |-> MaxFrames, overruns |-> MaxOverruns]

(* The configuration as the source has it (lines 40-43), fed 200 frames by *)
(* an audio source that does not fail.                                     *)
SourceConfig ==
    [SAMPLE_RATE |-> 16000, CHUNK_SIZE |-> 1024,
     CHUNK_DURATION |-> 5, OVERLAP_DURATION |-> 1,
     frames |-> 200, overruns |-> 0]

(* Small configurations, run like the source's: with a power of two as    *)
(* CHUNK_SIZE the float quotient SAMPLE_RATE / CHUNK_SIZE is exact, and so *)
(* is its product with the duration.                                       *)
SmallConfigs ==
    { [SAMPLE_RATE |-> r, CHUNK_SIZE |-> c,
       CHUNK_DURATION |-> d, OVERLAP_DURATION |-> o,
       frames |-> MaxFrames, overruns |-> 0] :
          r \in { 8, 11, 13 }, c \in { 2, 4 }, d \in { 1, 2 }, o \in { 1, 2 } }

VARIABLES
    config,                 \* the module constants and the length of the run
    is_running,             \* self.is_running
    audio_stream,           \* self.audio_stream: "none", "open", "closed",
                            \* "closed_again"
    frame_buffer,           \* self.frame_buffer (deque), oldest first
    frames_queue,           \* self.frames_queue (asyncio.Queue), oldest first
    recent_transcriptions,  \* self.recent_transcriptions
    chunk_counter,          \* local of record_audio
    rec_pc,                 \* position of record_audio
    proc_pc,                \* position of process_audio: "running" (line
                            \* 116), "waiting" and "woken" (in get(), line
                            \* 118), "done"
    tasks,                  \* transcribe_and_display tasks, in creation order
    ready,                  \* ready queue of the event loop
    display,                \* what the terminal shows (last render)
    frames_read,            \* frames the audio source has delivered
    overruns,               \* reads that raised paInputOverflowed
    signals_put,            \* history: Signals put by record_audio
    discarded,              \* history: Signals process_audio dropped
    all_appended,           \* history: every entry ever appended to the log
    errors,                 \* history: "Error during transcription" lines printed
    renders,                \* history: number of display refreshes
    mic,                    \* MicrophoneStream of transcribe_chirp3.py
    live                    \* TranscriptionLoop of transcribe_live.py

vars == << config, is_running, audio_stream, frame_buffer, frames_queue,
           recent_transcriptions, chunk_counter, rec_pc, proc_pc, tasks,
           ready, display, frames_read, overruns, signals_put, discarded,
           all_appended, errors, renders, mic, live >>

(* mutant: the quotient rounded up *)
FrameCountCeil(secs) ==
    (config.SAMPLE_RATE * secs + config.CHUNK_SIZE - 1) \div config.CHUNK_SIZE

(* int(SAMPLE_RATE / CHUNK_SIZE * secs): truncation of a non-negative      *)
(* quotient.  For the values used here, and for the source's, the float    *)
(* arithmetic gives the same number as the exact quotient (93, 78 and 15   *)
(* for 16000, 1024, 5, 1).                                                 *)
FrameCount(secs) == (config.SAMPLE_RATE * secs) \div config.CHUNK_SIZE

(* deque(maxlen=...), line 61 *)
maxlen == FrameCount(config.CHUNK_DURATION + config.OVERLAP_DURATION)

(* mutant: the Signal period taken from the clip duration *)
chunks_per_clip == FrameCount(config.CHUNK_DURATION)

(* chunks_per_processing, line 84 *)
chunks_per_processing == FrameCount(config.OVERLAP_DURATION)

(* int(SAMPLE_RATE / CHUNK_SIZE * CHUNK_DURATION), lines 120 and 122 *)
FramesPerClip == FrameCount(config.CHUNK_DURATION)

REC == << "rec", 0 >>
PROC == << "proc", 0 >>
TaskHandle(k) == << "task", k >>

Running(h) == ready # << >> /\ Head(ready) = h

(***************************************************************************)
(* Frame ring buffer                                                       *)
(***************************************************************************)

(* mutant: a plain list, nothing is ever evicted *)
DequeAppendUnbounded(buf, data) == Append(buf, data)

(* mutant: appendleft, the newest frame goes to the front *)
DequeAppendLeft(buf, data) ==
    IF maxlen = 0 THEN << >>
    ELSE IF Len(buf) >= maxlen
         THEN << data >> \o SubSeq(buf, 1, Len(buf) - 1)
    ELSE << data >> \o buf

(* mutant: a buffer that is emptied when full and started again *)
DequeAppendRestart(buf, data) ==
    IF maxlen = 0 THEN << >>
    ELSE IF Len(buf) >= maxlen THEN << data >>
    ELSE Append(buf, data)

(* deque.append with maxlen: the oldest element is discarded when full *)
DequeAppend(buf, data) ==
    IF maxlen = 0 THEN << >>
    ELSE IF Len(buf) >= maxlen THEN Append(Tail(buf), data)
    ELSE Append(buf, data)

(* mutant: no slice, the whole buffer is handed over *)
SnapshotWhole(buf, k) == buf

(* mutant: the slice [:k], the oldest frames instead of the newest *)
SnapshotOldest(buf, k) ==
    IF k >= Len(buf) THEN buf ELSE SubSeq(buf, 1, k)

(* list(buf)[-k:]; in Python -0 is 0, so [-0:] is the whole list *)
Snapshot(buf, k) ==
    IF k = 0 \/ k >= Len(buf) THEN buf
    ELSE SubSeq(buf, Len(buf) - k + 1, Len(buf))

(* mutant: no window is cut before the ring buffer is full *)
EnoughHistoryWhenFull(buf) == Len(buf) >= maxlen

(* mutant: the threshold of the capture counter is used for the window *)
EnoughHistoryForOverlap(buf) == Len(buf) >= chunks_per_processing

(* mutant: a window is dispatched only while no other task is unfinished *)
EnoughHistoryAndIdle(buf) ==
    /\ Len(buf) >= FramesPerClip
    /\ \A k \in 1 .. Len(tasks) : tasks[k].pc = "done"

(* len(self.frame_buffer) >= int(...), line 120 *)
EnoughHistory(buf) == Len(buf) >= FramesPerClip

(***************************************************************************)
(* Signal channel: asyncio.Queue() without maxsize                         *)
(***************************************************************************)

(* mutant: put wakes the getter only when no transcription is unfinished *)
WakeGetterWhenIdle(rdy) ==
    IF proc_pc = "waiting" /\ \A k \in 1 .. Len(tasks) : tasks[k].pc = "done"
    THEN Append(rdy, PROC)
    ELSE rdy

(* mutant: put does not wake the suspended getter *)
WakeGetterNever(rdy) == rdy

(* Queue.put on a queue that is never full: put_nowait, which wakes a      *)
(* getter that is suspended in get().                                      *)
WakeGetter(rdy) == IF proc_pc = "waiting" THEN Append(rdy, PROC) ELSE rdy


(***************************************************************************)
(* Transcription backend and result log                                    *)
(***************************************************************************)

Ola == << "ola" >>
NoText == << >>

(* A part of a response: it may lack the attribute `text`, and the         *)
(* attribute may be None.                                                  *)
TextPart(t) == [attr |-> TRUE, none |-> FALSE, text |-> t]
NonePart == [attr |-> TRUE, none |-> TRUE, text |-> NoText]
OtherPart == [attr |-> FALSE, none |-> FALSE, text |-> NoText]

(* What client.aio.models.generate_content can do: raise, or return a      *)
(* response (possibly None) with a list of parts and a text attribute      *)
(* (the empty text also stands for a text attribute that is None).         *)
Responses ==
    { [kind |-> "raise", parts |-> << >>, text |-> NoText],
      [kind |-> "none", parts |-> << >>, text |-> NoText],
      [kind |-> "resp", parts |-> << TextPart(Ola), OtherPart >>, text |-> Ola],
      [kind |-> "resp", parts |-> << TextPart(NoText) >>, text |-> Ola],
      [kind |-> "resp", parts |-> << NonePart >>, text |-> NoText],
      [kind |-> "resp", parts |-> << >>, text |-> Ola],
      [kind |-> "resp", parts |-> << >>, text |-> NoText] }

RECURSIVE Join(_)
(* "".join(part.text for part in response.parts if hasattr(part, 'text')) *)
Join(parts) ==
    IF parts = << >> THEN NoText
    ELSE (IF Head(parts).attr THEN Head(parts).text ELSE NoText)
         \o Join(Tail(parts))

(* An exception reaches the handler of lines 187-188: the call raised, or  *)
(* str.join met a part whose text is None (line 165).                      *)
Raises(response) ==
    \/ response.kind = "raise"
    \/ /\ response.kind = "resp"
       /\ \E i \in 1 .. Len(response.parts) :
              response.parts[i].attr /\ response.parts[i].none

(* lines 163-167 *)
ExtractText(response) ==
    IF response.kind = "resp" /\ response.parts # << >> THEN Join(response.parts)
    ELSE IF response.kind = "resp" THEN response.text
    ELSE NoText

(* mutant: `if transcription is not None:`, the empty text passes *)
TruthyNotNone(transcription) == TRUE

(* `if transcription:`, line 169 *)
Truthy(transcription) == transcription # NoText

(* mutant: the log is kept in dispatch order *)
LogAppendByDispatch(log, entry) ==
    LET Earlier(e) == e.task < entry.task
        Later(e) == e.task > entry.task
        inserted == SelectSeq(log, Earlier) \o << entry >> \o SelectSeq(log, Later)
    IN IF Len(inserted) > max_recent_transcriptions THEN Tail(inserted)
       ELSE inserted

(* mutant: pop() for pop(0), the newest entry is dropped *)
LogAppendDropNewest(log, entry) ==
    LET appended == Append(log, entry)
    IN IF Len(appended) > max_recent_transcriptions
       THEN SubSeq(appended, 1, Len(appended) - 1)
       ELSE appended

(* lines 172-176: append, then drop the first entry when over the limit *)
LogAppend(log, entry) ==
    LET appended == Append(log, entry)
    IN IF Len(appended) > max_recent_transcriptions THEN Tail(appended)
       ELSE appended

(* mutant: the screen is drawn from the log as it was before the append *)
RenderWithoutNewest(log) ==
    IF log = << >> THEN log ELSE SubSeq(log, 1, Len(log) - 1)

(* lines 179-185: the screen is cleared and the entries of the log are     *)
(* printed one per line, in list order, between a fixed header and footer  *)
(* (left out)                                                              *)
Render(log) == [i \in 1 .. Len(log) |-> log[i]]

(* mutant: the handler resets the log *)
LogAfterErrorCleared(log) == << >>

(* lines 187-188: the handler only prints; the log is left alone *)
LogAfterError(log) == log

(***************************************************************************)
(* transcribe_chirp3.py: MicrophoneStream.  Three threads share the        *)
(* object: the audio callback (_fill_buffer), the main thread, which       *)
(* leaves the with-block (__exit__), and the thread that iterates          *)
(* generator() to feed the streaming request.  `mic' is the object after   *)
(* __enter__ (lines 66-73) and after generator() was called (line 211):    *)
(* the stream is open and calling back, closed is False, the buffer is     *)
(* empty and the generator has not been started.  put and yielded record   *)
(* the bytes enqueued and the bytes yielded.                               *)
(***************************************************************************)
MicrophoneStreamEntered ==
    [closed |-> FALSE, active |-> TRUE, buff |-> << >>,
     exit_pc |-> "body", gen_pc |-> "suspended", data |-> << >>,
     put |-> << >>, yielded |-> << >>]

(***************************************************************************)
(* transcribe_live.py: TranscriptionLoop, once run() has made out_queue    *)
(* (line 145), the task group has started listen_audio and send_realtime   *)
(* and the microphone is open: listen_audio waits for its first read,      *)
(* send_realtime for its first message.  data and msg are the locals of    *)
(* the two coroutines, empty when unset; captured counts the reads and     *)
(* sent records what session.send has delivered.                           *)
(***************************************************************************)
TranscriptionLoopStarted ==
    [is_running |-> TRUE, cancelled |-> FALSE, out_queue |-> << >>,
     listen_pc |-> "reading", send_pc |-> "getting",
     data |-> << >>, msg |-> << >>, captured |-> 0, sent |-> << >>]


(***************************************************************************)
(* Initial state: ContinuousTranscriber() constructed, run() has entered   *)
(* the TaskGroup and created the two long-lived tasks (lines 53-65,        *)
(* 198-200).                                                               *)
(***************************************************************************)
Constructed ==
    /\ is_running = TRUE
    /\ audio_stream = "none"
    /\ frame_buffer = << >>
    /\ frames_queue = << >>
    /\ recent_transcriptions = << >>
    /\ chunk_counter = 0
    /\ rec_pc = "start"
    /\ proc_pc = "running"
    /\ tasks = << >>
    /\ ready = << REC, PROC >>
    /\ display = << >>
    /\ frames_read = 0
    /\ overruns = 0
    /\ signals_put = 0
    /\ discarded = 0
    /\ all_appended = << >>
    /\ errors = 0
    /\ renders = 0
    /\ mic = MicrophoneStreamEntered
    /\ live = TranscriptionLoopStarted

(* the scaled configuration *)
Init == config = ScaledConfig /\ Constructed

(***************************************************************************)
(* record_audio                                                            *)
(***************************************************************************)

(* `while self.is_running`, line 87 *)
RecContinues == is_running

(* Back at the head of the capture loop, the stream being open: start the  *)
(* next read, or leave the loop and run the finally block (lines 108-111), *)
(* which stops and closes the stream.                                      *)
RecLoopHead ==
    IF RecContinues
    THEN rec_pc' = "reading" /\ audio_stream' = "open"
    ELSE rec_pc' = "done" /\ audio_stream' = "closed"

(* lines 69-79: up to the await of to_thread(self.pya.open, ...) *)
RecStart ==
    /\ Running(REC) /\ rec_pc = "start"
    /\ rec_pc' = "opening"
    /\ ready' = Tail(ready)
    /\ UNCHANGED << mic, live, config, is_running, audio_stream, frame_buffer,
                    frames_queue, recent_transcriptions,
                    chunk_counter, proc_pc, tasks,
                    display, frames_read, overruns, signals_put, discarded,
                    all_appended, errors, renders >>

(* the thread running pya.open finishes *)
OpenReturns ==
    /\ rec_pc = "opening"
    /\ rec_pc' = "open_ret"
    /\ ready' = Append(ready, REC)
    /\ UNCHANGED << mic, live, config, is_running, audio_stream, frame_buffer,
                    frames_queue, recent_transcriptions,
                    chunk_counter, proc_pc, tasks,
                    display, frames_read, overruns, signals_put, discarded,
                    all_appended, errors, renders >>

(* lines 71-87: the stream is open; counter set up; first read started *)
RecOpened ==
    /\ Running(REC) /\ rec_pc = "open_ret"
    /\ chunk_counter' = 0
    /\ RecLoopHead
    /\ ready' = Tail(ready)
    /\ UNCHANGED << mic, live, config, is_running, frame_buffer, frames_queue,
                    recent_transcriptions, proc_pc, tasks, display,
                    frames_read, overruns, signals_put, discarded,
                    all_appended, errors, renders >>

(* pya.open raised: lines 106-109, self.audio_stream is still None *)
RecOpenFailed ==
    /\ Running(REC) /\ rec_pc = "open_ret"
    /\ rec_pc' = "done"
    /\ ready' = Tail(ready)
    /\ UNCHANGED << mic, live, config, is_running, audio_stream, frame_buffer,
                    frames_queue, recent_transcriptions,
                    chunk_counter, proc_pc, tasks,
                    display, frames_read, overruns, signals_put, discarded,
                    all_appended, errors, renders >>

(* the thread running audio_stream.read finishes *)
ReadReturns ==
    /\ rec_pc = "reading"
    /\ frames_read < config.frames
    /\ rec_pc' = "read_ret"
    /\ ready' = Append(ready, REC)
    /\ UNCHANGED << mic, live, config, is_running, audio_stream, frame_buffer,
                    frames_queue, recent_transcriptions,
                    chunk_counter, proc_pc, tasks,
                    display, frames_read, overruns, signals_put, discarded,
                    all_appended, errors, renders >>

(* mutant: `>` for `>=`, one frame late *)
SignalDueLate(counter) == counter > chunks_per_processing

(* `chunk_counter >= chunks_per_processing`, line 94 *)
SignalDue(counter) == counter >= chunks_per_processing

(* lines 89-97, then back to line 87: the read delivered a frame *)
RecAppend ==
    /\ Running(REC) /\ rec_pc = "read_ret"
    /\ frames_read' = frames_read + 1
    /\ frame_buffer' = DequeAppend(frame_buffer, frames_read + 1)
    /\ IF SignalDue(chunk_counter + 1)
       THEN /\ frames_queue' = Append(frames_queue, "process")
            /\ signals_put' = signals_put + 1
            /\ ready' = WakeGetter(Tail(ready))
            /\ proc_pc' = IF proc_pc = "waiting" THEN "woken" ELSE proc_pc
            /\ chunk_counter' = 0
       ELSE /\ chunk_counter' = chunk_counter + 1
            /\ ready' = Tail(ready)
            /\ UNCHANGED << frames_queue, signals_put, proc_pc >>
    /\ RecLoopHead
    /\ UNCHANGED << mic, live, config, is_running, recent_transcriptions,
                    tasks, display, overruns, discarded, all_appended, errors,
                    renders >>

(* pyaudio.paInputOverflowed, and any other errno of an IOError *)
paInputOverflowed == "paInputOverflowed"
paOtherError == "paOtherError"

(* mutant: every IOError of the read is re-raised *)
ReraisedAlways(errno) == TRUE

(* `if getattr(ex, 'errno', None) != pyaudio.paInputOverflowed: raise`,    *)
(* line 100                                                                *)
Reraised(errno) == errno # paInputOverflowed

(* lines 99-102: the read raised IOError with errno paInputOverflowed; the *)
(* warning of line 102 is printed and the loop goes on                     *)
RecOverflow ==
    /\ Running(REC) /\ rec_pc = "read_ret"
    /\ overruns < config.overruns
    /\ overruns' = overruns + 1
    /\ IF Reraised(paInputOverflowed)
       THEN rec_pc' = "done" /\ audio_stream' = "closed"
       ELSE RecLoopHead
    /\ ready' = Tail(ready)
    /\ UNCHANGED << mic, live, config, is_running, frame_buffer, frames_queue,
                    recent_transcriptions, chunk_counter, proc_pc, tasks,
                    display, frames_read, signals_put, discarded,
                    all_appended, errors, renders >>

(* lines 99-101, 106-111: any other error of the read is re-raised, caught *)
(* by the outer handler, and the stream is closed                          *)
RecFatal ==
    /\ Running(REC) /\ rec_pc = "read_ret"
    /\ Reraised(paOtherError)
    /\ rec_pc' = "done"
    /\ audio_stream' = "closed"
    /\ ready' = Tail(ready)
    /\ UNCHANGED << mic, live, config, is_running, frame_buffer, frames_queue,
                    recent_transcriptions, chunk_counter, proc_pc, tasks,
                    display, frames_read, overruns, signals_put, discarded,
                    all_appended, errors, renders >>

(***************************************************************************)
(* process_audio                                                           *)
(***************************************************************************)

(* mutant: the loop body is never entered again *)
ProcContinuesNever == FALSE

(* `while self.is_running`, line 116 *)
ProcContinues == is_running

(* lines 116-118: at the head of the loop, leave it, or suspend in get()   *)
(* on an empty queue.                                                      *)
ProcLoopHead ==
    /\ Running(PROC) /\ proc_pc = "running"
    /\ ~ProcContinues \/ frames_queue = << >>
    /\ proc_pc' = IF ProcContinues THEN "waiting" ELSE "done"
    /\ ready' = Tail(ready)
    /\ UNCHANGED << mic, live, config, is_running, audio_stream, frame_buffer,
                    frames_queue, recent_transcriptions,
                    chunk_counter, rec_pc, tasks,
                    display, frames_read, overruns, signals_put, discarded,
                    all_appended, errors, renders >>

(* lines 116-118: get() hands over a Signal.  Either process_audio was     *)
(* suspended in get() and has been woken by a put: it then takes the       *)
(* Signal whatever the flag has become since.  Or it is at the head of the *)
(* loop with the flag set and a Signal in the queue: get() then returns at *)
(* once, without yielding to the event loop.                               *)
GetReturns ==
    /\ Running(PROC)
    /\ \/ proc_pc = "woken"
       \/ proc_pc = "running" /\ ProcContinues /\ frames_queue # << >>

(* lines 118-120: a Signal is taken and the condition of line 120 fails *)
ProcDiscard ==
    /\ GetReturns
    /\ proc_pc' = "running"
    /\ ~(Head(frames_queue) = "process" /\ EnoughHistory(frame_buffer))
    /\ frames_queue' = Tail(frames_queue)
    /\ discarded' = discarded + 1
    /\ UNCHANGED << mic, live, config, is_running, audio_stream, frame_buffer,
                    recent_transcriptions, chunk_counter, rec_pc, tasks,
                    ready, display, frames_read, overruns, signals_put,
                    all_appended, errors, renders >>

(* A task just created by asyncio.create_task(self.transcribe_and_display( *)
(* audio_bytes)), line 135.  audio_bytes is the WAV container around       *)
(* b''.join(frames_to_process): the frames of the window, in order.        *)
NewTask(frames_to_process) ==
    [window |-> frames_to_process, pc |-> "created", calls |-> 0]

(* lines 118-135: a Signal is taken, the window is copied and a task is    *)
(* created for it; create_task schedules the task and returns              *)
ProcDispatch ==
    /\ GetReturns
    /\ proc_pc' = "running"
    /\ Head(frames_queue) = "process" /\ EnoughHistory(frame_buffer)
    /\ frames_queue' = Tail(frames_queue)
    /\ tasks' = Append(tasks, NewTask(Snapshot(frame_buffer, FramesPerClip)))
    /\ ready' = Append(ready, TaskHandle(Len(tasks) + 1))
    /\ UNCHANGED << mic, live, config, is_running, audio_stream, frame_buffer,
                    recent_transcriptions, chunk_counter, rec_pc, display,
                    frames_read, overruns, signals_put, discarded,
                    all_appended, errors, renders >>

(***************************************************************************)
(* transcribe_and_display                                                  *)
(***************************************************************************)

(* lines 144-160: the request is built and generate_content is awaited *)
TaskStart(k) ==
    /\ Running(TaskHandle(k)) /\ tasks[k].pc = "created"
    /\ tasks' = [tasks EXCEPT ![k].pc = "calling", ![k].calls = @ + 1]
    /\ ready' = Tail(ready)
    /\ UNCHANGED << mic, live, config, is_running, audio_stream, frame_buffer,
                    frames_queue, recent_transcriptions,
                    chunk_counter, rec_pc, proc_pc,
                    display, frames_read, overruns, signals_put, discarded,
                    all_appended, errors, renders >>

(* the backend call of task k returns or raises *)
BackendReturns(k) ==
    /\ tasks[k].pc = "calling"
    /\ tasks' = [tasks EXCEPT ![k].pc = "returned"]
    /\ ready' = Append(ready, TaskHandle(k))
    /\ UNCHANGED << mic, live, config, is_running, audio_stream, frame_buffer,
                    frames_queue, recent_transcriptions,
                    chunk_counter, rec_pc, proc_pc,
                    display, frames_read, overruns, signals_put, discarded,
                    all_appended, errors, renders >>

(* The entry appended at line 172.  The timestamp makes it this task's     *)
(* entry; the task number stands for it.                                   *)
Entry(k, transcription) == [task |-> k, text |-> transcription]

(* lines 162-188: the rest of the task, run without suspension *)
TaskFinish(k, response) ==
    /\ Running(TaskHandle(k)) /\ tasks[k].pc = "returned"
    /\ tasks' = [tasks EXCEPT ![k].pc = "done"]
    /\ ready' = Tail(ready)
    /\ IF Raises(response)
       THEN /\ recent_transcriptions' = LogAfterError(recent_transcriptions)
            /\ errors' = errors + 1
            /\ UNCHANGED << display, all_appended, renders >>
       ELSE IF Truthy(ExtractText(response))
       THEN /\ recent_transcriptions' =
                   LogAppend(recent_transcriptions, Entry(k, ExtractText(response)))
            /\ all_appended' = Append(all_appended, Entry(k, ExtractText(response)))
            /\ display' = Render(recent_transcriptions')
            /\ renders' = renders + 1
            /\ UNCHANGED errors
       ELSE UNCHANGED << recent_transcriptions, display, all_appended, errors,
                         renders >>
    /\ UNCHANGED << mic, live, config, is_running, audio_stream, frame_buffer,
                    frames_queue,
                    chunk_counter, rec_pc, proc_pc, frames_read, overruns,
                    signals_put, discarded >>

TaskIds == 1 .. Len(tasks)

Next ==
    \/ RecStart
    \/ OpenReturns
    \/ RecOpened
    \/ RecOpenFailed
    \/ ReadReturns
    \/ RecAppend
    \/ RecOverflow
    \/ RecFatal
    \/ ProcLoopHead
    \/ ProcDiscard
    \/ ProcDispatch
    \/ \E k \in TaskIds : TaskStart(k)
    \/ \E k \in TaskIds : BackendReturns(k)
    \/ \E k \in TaskIds : \E response \in Responses : TaskFinish(k, response)

Spec == Init /\ [][Next]_vars

(***************************************************************************)
(* The pipeline as the source configures it, on a stub backend: the audio  *)
(* source delivers config.frames frames without a fault, and every call    *)
(* of the backend returns the same non-empty text.                         *)
(***************************************************************************)

InitSource == config = SourceConfig /\ Constructed

(* what the stub backend returns: a response whose text is "ola" *)
StubResponse == [kind |-> "resp", parts |-> << TextPart(Ola) >>, text |-> Ola]

(* tasks whose coroutine has not finished *)
Unfinished == { k \in TaskIds : tasks[k].pc # "done" }

(* A read takes 64 ms, the stub answers at once: a read completes while at *)
(* most MaxStubLag tasks are unfinished.                                   *)
StubReadReturns == ReadReturns /\ Cardinality(Unfinished) <= MaxStubLag

NextSource ==
    \/ RecStart
    \/ OpenReturns
    \/ RecOpened
    \/ StubReadReturns
    \/ RecAppend
    \/ ProcLoopHead
    \/ ProcDiscard
    \/ ProcDispatch
    \/ \E k \in TaskIds : TaskStart(k)
    \/ \E k \in TaskIds : BackendReturns(k)
    \/ \E k \in TaskIds : TaskFinish(k, StubResponse)

SpecSource == InitSource /\ [][NextSource]_vars

(* the same pipeline, for the source's configuration and the small ones *)
InitConfigs == config \in SmallConfigs \cup { SourceConfig } /\ Constructed

SpecConfigs == InitConfigs /\ [][NextSource]_vars

(***************************************************************************)
(* The pipeline with a stop request.  run() itself clears is_running only  *)
(* at line 207, once both loops have ended; here the flag is cleared while *)
(* they run, by whoever holds the transcriber, which is the request the    *)
(* two `while self.is_running` loops (lines 87 and 116) poll for.          *)
(***************************************************************************)

(* self.is_running = False *)
RequestStop ==
    /\ is_running
    /\ is_running' = FALSE
    /\ UNCHANGED << mic, live, config, audio_stream, frame_buffer, frames_queue,
                    recent_transcriptions, chunk_counter, rec_pc, proc_pc,
                    tasks, ready, display, frames_read, overruns, signals_put,
                    discarded, all_appended, errors, renders >>

NextStop == Next \/ RequestStop

SpecStop == Init /\ [][NextStop]_vars

(***************************************************************************)
(* The pipeline interrupted: Ctrl+C makes asyncio.run cancel the main      *)
(* task, which is waiting in the TaskGroup of run() (lines 198-200); the   *)
(* TaskGroup cancels its two children, waits for them, and run() goes      *)
(* through its finally block (lines 206-211).  The transcription tasks are *)
(* not children of the TaskGroup and are left alone.                       *)
(***************************************************************************)

(* Task.cancel(): a coroutine that has not finished gets CancelledError at *)
(* its next step, and is made ready if it was suspended                    *)
CancelledPc(pc) == IF pc = "done" THEN "done" ELSE "cancelled"

Scheduled(rdy, h) == \E i \in 1 .. Len(rdy) : rdy[i] = h

MadeReady(rdy, h, pc) ==
    IF pc = "done" \/ Scheduled(rdy, h) THEN rdy ELSE Append(rdy, h)

(* the TaskGroup cancels record_audio and process_audio *)
Interrupt ==
    /\ is_running
    /\ rec_pc \notin { "done", "cancelled" }
          \/ proc_pc \notin { "done", "cancelled" }
    /\ rec_pc' = CancelledPc(rec_pc)
    /\ proc_pc' = CancelledPc(proc_pc)
    /\ ready' = MadeReady(MadeReady(ready, REC, rec_pc), PROC, proc_pc)
    /\ UNCHANGED << mic, live, config, is_running, audio_stream, frame_buffer,
                    frames_queue, recent_transcriptions, chunk_counter,
                    tasks, display, frames_read, overruns, signals_put,
                    discarded, all_appended, errors, renders >>

(* stop_stream() and close() called on the handle; "closed_again" records  *)
(* that they were called on a handle already closed                        *)
StopAndClose(stream) == IF stream = "open" THEN "closed" ELSE "closed_again"

(* `if self.audio_stream:` followed by stop_stream() and close(), lines    *)
(* 109-111 and 208-210; the attribute is never set back to None            *)
CloseIfSet(stream) == IF stream = "none" THEN stream ELSE StopAndClose(stream)

(* lines 104-111: record_audio gets CancelledError, passes, and runs its   *)
(* finally block                                                           *)
RecCancelled ==
    /\ Running(REC) /\ rec_pc = "cancelled"
    /\ rec_pc' = "done"
    /\ audio_stream' = CloseIfSet(audio_stream)
    /\ ready' = Tail(ready)
    /\ UNCHANGED << mic, live, config, is_running, frame_buffer, frames_queue,
                    recent_transcriptions, chunk_counter, proc_pc, tasks,
                    display, frames_read, overruns, signals_put, discarded,
                    all_appended, errors, renders >>

(* lines 137-138: process_audio gets CancelledError and passes *)
ProcCancelled ==
    /\ Running(PROC) /\ proc_pc = "cancelled"
    /\ proc_pc' = "done"
    /\ ready' = Tail(ready)
    /\ UNCHANGED << mic, live, config, is_running, audio_stream, frame_buffer,
                    frames_queue, recent_transcriptions, chunk_counter,
                    rec_pc, tasks, display, frames_read, overruns,
                    signals_put, discarded, all_appended, errors, renders >>

(* lines 206-211: both children have ended; the finally block of run() *)
RunCleanup ==
    /\ is_running
    /\ rec_pc = "done" /\ proc_pc = "done"
    /\ is_running' = FALSE
    /\ audio_stream' = CloseIfSet(audio_stream)
    /\ UNCHANGED << mic, live, config, frame_buffer, frames_queue,
                    recent_transcriptions, chunk_counter, rec_pc, proc_pc,
                    tasks, ready, display, frames_read, overruns, signals_put,
                    discarded, all_appended, errors, renders >>

NextRun == Next \/ Interrupt \/ RecCancelled \/ ProcCancelled \/ RunCleanup

(* the scaled configuration, on a shorter run *)
InitRun == config = [ScaledConfig EXCEPT !.frames = MaxRunFrames] /\ Constructed

SpecRun == InitRun /\ [][NextRun]_vars

(***************************************************************************)
(* The pipeline on an audio source that keeps delivering (overruns apart), *)
(* under fair scheduling: the event loop runs the coroutine at the head of *)
(* its ready queue, and a blocking audio call run by asyncio.to_thread     *)
(* returns.  Nothing is assumed of the backend: a call may never return.   *)
(***************************************************************************)

(* one step of the coroutine at the head of the ready queue *)
LoopStep ==
    \/ RecStart
    \/ RecOpened
    \/ RecAppend
    \/ RecOverflow
    \/ ProcLoopHead
    \/ ProcDiscard
    \/ ProcDispatch
    \/ \E k \in TaskIds : TaskStart(k)
    \/ \E k \in TaskIds : \E response \in Responses : TaskFinish(k, response)

NextLive ==
    \/ LoopStep
    \/ OpenReturns
    \/ ReadReturns
    \/ \E k \in TaskIds : BackendReturns(k)

Fairness ==
    /\ WF_vars(LoopStep)
    /\ WF_vars(OpenReturns)
    /\ WF_vars(ReadReturns)

SpecLive == InitRun /\ [][NextLive]_vars /\ Fairness

(***************************************************************************)
(* Properties                                                              *)
(***************************************************************************)

Min(a, b) == IF a <= b THEN a ELSE b

(* the last `count` of the frames 1 .. n of the audio stream, oldest first *)
LastFrames(n, count) == [i \in 1 .. Min(n, count) |-> n - Min(n, count) + i]

(* the last `count` elements of a sequence *)
LastOf(seq, count) ==
    [i \in 1 .. Min(Len(seq), count) |-> seq[Len(seq) - Min(Len(seq), count) + i]]

(* C1: whatever has been read, the ring buffer holds at most maxlen        *)
(* frames, and they are exactly the last min(n, maxlen) of the n frames    *)
(* read so far, in read order.                                             *)
C1_RingBufferHoldsLastFrames ==
    /\ Len(frame_buffer) <= maxlen
    /\ frame_buffer = LastFrames(frames_read, maxlen)

(* the buffer has been full and has evicted, and a read has overrun *)
C1_Witness ==
    /\ frames_read >= maxlen + 2
    /\ Len(frame_buffer) = maxlen
    /\ overruns >= 1

(* C2 as amended: for every reachable buffer and every count k >= 1, the   *)
(* slice [-k:] is min(k, length) frames long and consists of the most      *)
(* recent frames of the stream, oldest first.                              *)
C2_SnapshotIsMostRecent ==
    \A k \in 1 .. maxlen + 1 :
        /\ Len(Snapshot(frame_buffer, k)) = Min(k, Len(frame_buffer))
        /\ Snapshot(frame_buffer, k) =
               LastFrames(frames_read, Min(k, Len(frame_buffer)))

(* C2 as stated: the same for every count k, 0 included. *)
C2_SnapshotAnyCount ==
    \A k \in 0 .. maxlen + 1 :
        /\ Len(Snapshot(frame_buffer, k)) = Min(k, Len(frame_buffer))
        /\ Snapshot(frame_buffer, k) =
               LastFrames(frames_read, Min(k, Len(frame_buffer)))

(* the dispatcher has just copied its window out of a buffer that has      *)
(* already evicted frames                                                  *)
C2_Witness ==
    /\ frames_read > maxlen
    /\ tasks # << >>
    /\ tasks[Len(tasks)].pc = "created"
    /\ tasks[Len(tasks)].window = Snapshot(frame_buffer, FramesPerClip)
    /\ Len(tasks[Len(tasks)].window) < Len(frame_buffer)

(* C3: the number of Signals put so far is floor(n / chunks_per_processing)*)
(* for the n frames appended so far; the counter holds the remainder, so a *)
(* Signal is put exactly when it reaches chunks_per_processing and it is   *)
(* then 0 again; a read that overruns changes neither buffer, counter nor  *)
(* channel.                                                                *)
C3_SignalsCounted ==
    /\ signals_put = frames_read \div chunks_per_processing
    /\ chunk_counter = frames_read % chunks_per_processing

C3_OverrunChangesNothing ==
    overruns' # overruns =>
        UNCHANGED << frame_buffer, chunk_counter, frames_queue, signals_put,
                     frames_read >>

C3_SignalWhenCounterFull ==
    /\ frames_read' # frames_read =>
           (signals_put' = signals_put + 1
                <=> chunk_counter + 1 = chunks_per_processing)
    /\ signals_put' # signals_put =>
           /\ chunk_counter' = 0
           /\ frames_queue' = Append(frames_queue, "process")
           /\ frames_read' = frames_read + 1

C3_OneSignalPerOverlap ==
    /\ [] C3_SignalsCounted
    /\ [][C3_OverrunChangesNothing /\ C3_SignalWhenCounterFull]_vars

C3_Witness ==
    /\ signals_put >= 3
    /\ overruns >= 1
    /\ chunk_counter > 0

(* process_audio takes a Signal off the channel in this step *)
SignalTaken == Len(frames_queue') < Len(frames_queue)

DoneTasks == { k \in TaskIds : tasks[k].pc = "done" }
InFlight == { k \in TaskIds : tasks[k].pc # "done" }

(* position of the first occurrence of x in seq *)
PosIn(seq, x) == CHOOSE i \in 1 .. Len(seq) : seq[i] = x

(* C4: a Signal taken while the buffer holds fewer than FramesPerClip      *)
(* frames is dropped: no task is created, buffer and log stay as they are; *)
(* so no task exists as long as the buffer is that short.                  *)
C4_ShortHistoryStep ==
    SignalTaken /\ Len(frame_buffer) < FramesPerClip =>
        /\ tasks' = tasks
        /\ discarded' = discarded + 1
        /\ UNCHANGED << frame_buffer, recent_transcriptions, display >>

C4_NoTaskOnShortHistory == Len(frame_buffer) < FramesPerClip => tasks = << >>

C4_ShortHistoryDropsSignal ==
    /\ [] C4_NoTaskOnShortHistory
    /\ [][C4_ShortHistoryStep]_vars

(* two Signals have been dropped, the buffer is still too short *)
C4_Witness ==
    /\ discarded >= 2
    /\ frames_queue = << >>
    /\ 0 < Len(frame_buffer) /\ Len(frame_buffer) < FramesPerClip
    /\ tasks = << >>

(* C5: the log is in completion order.  An entry is appended only for the  *)
(* task whose call returned first among the unfinished ones, and the       *)
(* entries of the log stand in the order in which they were appended,      *)
(* whatever the dispatch order of their tasks.                             *)
C5_LogInAppendOrder ==
    \A i, j \in 1 .. Len(recent_transcriptions) :
        i < j => PosIn(all_appended, recent_transcriptions[i])
                     < PosIn(all_appended, recent_transcriptions[j])

C5_FirstReturnedFirstAppended ==
    all_appended' # all_appended =>
        LET a == all_appended'[Len(all_appended')].task
        IN /\ all_appended' = Append(all_appended, all_appended'[Len(all_appended')])
           /\ tasks[a].pc = "returned"
           /\ \A b \in TaskIds \ {a} :
                  tasks[b].pc = "returned" =>
                      PosIn(ready, TaskHandle(a)) < PosIn(ready, TaskHandle(b))

C5_LogInCompletionOrder ==
    /\ [] C5_LogInAppendOrder
    /\ [][C5_FirstReturnedFirstAppended]_vars

(* B was dispatched after A, finished before it, and stands before it *)
C5_Witness ==
    \E i, j \in 1 .. Len(recent_transcriptions) :
        /\ i < j
        /\ recent_transcriptions[i].task > recent_transcriptions[j].task

(* C6: the log holds at most max_recent_transcriptions entries, the last   *)
(* min(m, max_recent_transcriptions) of the m entries appended so far, in  *)
(* the order of their arrival.                                             *)
C6_LogHoldsLastEntries ==
    /\ Len(recent_transcriptions) <= max_recent_transcriptions
    /\ recent_transcriptions = LastOf(all_appended, max_recent_transcriptions)

(* E1 .. E6 appended, E2 .. E6 left *)
C6_Witness ==
    /\ Len(all_appended) = max_recent_transcriptions + 1
    /\ recent_transcriptions = Tail(all_appended)

(* C7: a failing backend call touches nothing but its own task: both loops *)
(* stay where they are, the other tasks stay scheduled, and afterwards     *)
(* windows are still dispatched and texts still appended.                  *)
C7_FailureStep ==
    errors' # errors =>
        /\ UNCHANGED << config, is_running, rec_pc, proc_pc, audio_stream,
                        frame_buffer, frames_queue, chunk_counter,
                        recent_transcriptions, display >>
        /\ Len(tasks') = Len(tasks)
        /\ ready' = Tail(ready)
        /\ \E k \in TaskIds :
               /\ Head(ready) = TaskHandle(k)
               /\ \A j \in TaskIds \ {k} : tasks'[j] = tasks[j]

C7_StillDispatched ==
    errors >= 1 /\ SignalTaken /\ Len(frame_buffer) >= FramesPerClip =>
        Len(tasks') = Len(tasks) + 1

C7_StillAppended ==
    errors >= 1 =>
        \A k \in TaskIds : \A r \in Responses :
            TaskFinish(k, r) /\ ~Raises(r) /\ ExtractText(r) # NoText =>
                /\ recent_transcriptions' # << >>
                /\ recent_transcriptions'[Len(recent_transcriptions')]
                       = Entry(k, ExtractText(r))

C7_FailureIsContained ==
    [][C7_FailureStep /\ C7_StillDispatched /\ C7_StillAppended]_vars

(* one failing call among five, four entries *)
C7_Witness ==
    /\ Len(tasks) = 5 /\ DoneTasks = TaskIds
    /\ errors = 1
    /\ Len(recent_transcriptions) = 4
    /\ recent_transcriptions[1].task = 1
    /\ recent_transcriptions[4].task = 5
    /\ rec_pc = "reading" /\ proc_pc = "waiting"

(* C8: a task whose call fails or yields no text ends without touching log *)
(* or display, and no task ever makes a second backend call.               *)
C8_DroppedStep ==
    \A k \in TaskIds : \A r \in Responses :
        TaskFinish(k, r) /\ (Raises(r) \/ ExtractText(r) = NoText) =>
            /\ UNCHANGED << recent_transcriptions, all_appended, display, renders >>
            /\ tasks'[k].pc = "done"

C8_NoRetryStep ==
    \A k \in TaskIds :
        /\ tasks[k].pc = "done" => tasks'[k] = tasks[k]
        /\ tasks'[k].calls # tasks[k].calls => tasks[k].pc = "created"

C8_OneCallEach ==
    \A k \in TaskIds : tasks[k].calls = IF tasks[k].pc = "created" THEN 0 ELSE 1

C8_FailedWindowDropped ==
    /\ [] C8_OneCallEach
    /\ [][C8_DroppedStep /\ C8_NoRetryStep]_vars

(* a call has failed, another has come back without text, a third has      *)
(* been appended: one entry, one refresh                                   *)
C8_Witness ==
    /\ Cardinality(DoneTasks) = 3
    /\ errors = 1
    /\ Len(all_appended) = 1 /\ renders = 1
    /\ all_appended[1].task = 2

(* C9: create_task returns at once: after a dispatch process_audio is      *)
(* still the running coroutine and the new task has not started; a Signal  *)
(* taken with enough history always creates a task, however many are       *)
(* unfinished.                                                             *)
C9_DispatchStep ==
    Len(tasks') # Len(tasks) =>
        /\ Len(tasks') = Len(tasks) + 1
        /\ tasks'[Len(tasks')].pc = "created"
        /\ \A j \in TaskIds : tasks'[j] = tasks[j]
        /\ proc_pc' = "running" /\ Head(ready') = PROC

C9_NoCapStep ==
    SignalTaken /\ Len(frame_buffer) >= FramesPerClip =>
        Len(tasks') = Len(tasks) + 1

C9_FireAndForget == [][C9_DispatchStep /\ C9_NoCapStep]_vars

(* every task dispatched so far is waiting for the backend at once *)
C9_Witness ==
    /\ Len(tasks) >= 4
    /\ \A k \in TaskIds : tasks[k].pc = "calling"
    /\ proc_pc = "waiting"

(* C10: at most one Signal is ever pending: put() wakes process_audio,     *)
(* which runs before record_audio's next read completes and empties the    *)
(* channel before it suspends again.                                       *)
C10_AtMostOnePending ==
    /\ Len(frames_queue) <= 1
    /\ frames_queue # << >> => proc_pc = "woken"

(* a Signal is pending while every backend call made so far is unanswered *)
C10_Witness ==
    /\ Len(frames_queue) = 1
    /\ Len(tasks) >= 3
    /\ DoneTasks = { }

(***************************************************************************)
(* C11                                                                     *)
(***************************************************************************)

InReady(h) == \E i \in 1 .. Len(ready) : ready[i] = h

(* C11, the step that appends a frame: when the counter makes a Signal     *)
(* due, the channel is empty, the Signal is in the channel after the same  *)
(* step and the counter is 0; with the running flag set, the step ends     *)
(* with the next read started.                                             *)
C11_AppendStep ==
    frames_read' # frames_read =>
        /\ chunk_counter + 1 >= chunks_per_processing =>
               /\ frames_queue = << >>
               /\ frames_queue' = << "process" >>
               /\ signals_put' = signals_put + 1
               /\ chunk_counter' = 0
        /\ is_running => rec_pc' = "reading"

(* C11, suspension points: whenever record_audio is neither finished nor   *)
(* ready to run, it is waiting for the audio source (open or read).        *)
C11_SuspendedOnAudioOnly ==
    (rec_pc # "done" /\ ~InReady(REC)) => rec_pc \in { "opening", "reading" }

Drained ==
    /\ frames_read = config.frames
    /\ ready = << >>
    /\ frames_queue = << >>
    /\ \A k \in TaskIds : tasks[k].pc = "done"

(* Signals process_audio has taken: dropped, or turned into a task *)
Handled == discarded + Len(tasks)

(* C12 as claimed: after 200 frames and with all work drained, 200 \div 16 *)
(* = 12 Signals have been handled, and the log got 12 - discarded entries. *)
C12_TwelveAttempts ==
    (frames_read = 200 /\ Drained) =>
        /\ Handled = 200 \div 16
        /\ Len(all_appended) = (200 \div 16) - discarded

(* C12: with 16000, 1024, 5, 1 and the stub backend, after 200 frames and  *)
(* with all work drained, 200 \div 15 = 13 Signals have been handled (one  *)
(* per 15 frames, 15 = int(15.625)), 5 of them dropped for short history   *)
(* (those of frames 15 .. 75, fewer than 78 frames), and the log got       *)
(* 13 - 5 = 8 entries, one per task.                                       *)
C12_ThirteenAttempts ==
    (frames_read = 200 /\ Drained) =>
        /\ Handled = 200 \div 15
        /\ signals_put = Handled
        /\ discarded = 5
        /\ Len(all_appended) = Handled - discarded
        /\ Len(all_appended) = Len(tasks)

(* 200 frames captured, everything drained, eight entries appended *)
C12_Witness ==
    /\ config = SourceConfig
    /\ frames_read = 200 /\ Drained
    /\ Len(all_appended) = 8

(***************************************************************************)
(* C13                                                                     *)
(***************************************************************************)

(* C13, the dispatcher's half: when the capture loop leaves on the cleared  *)
(* flag after its last read and no coroutine is left ready to run, the     *)
(* dispatcher loop has left too: it is not still suspended on the empty    *)
(* channel, where no Signal can reach it any more.                         *)
C13_StopReachesDispatcher ==
    [][(~is_running /\ rec_pc = "read_ret" /\ rec_pc' = "done"
          /\ ready' = << >>)
       => proc_pc' = "done"]_vars

(* C13, the capture loop's half: after the flag is cleared at most one     *)
(* more read is handled, and the loop is left at the end of that step.     *)
C13_CaptureStopsAfterOneRead ==
    [][(~is_running /\ rec_pc \in { "open_ret", "read_ret" }
          /\ rec_pc' # rec_pc)
       => rec_pc' = "done"]_vars

(***************************************************************************)
(* C14                                                                     *)
(***************************************************************************)

(* pya.open raised and record_audio has returned: the stream was never     *)
(* opened                                                                  *)
OpenFailed == rec_pc = "done" /\ audio_stream = "none"

(* C14: when the audio device cannot be opened, the pipeline does not      *)
(* start and run() ends: once record_audio has returned from the failed    *)
(* open and no coroutine is ready to run, process_audio has ended too (the *)
(* TaskGroup of run() completes only when both have), instead of being     *)
(* left waiting for Signals.                                               *)
C14_OpenFailureEndsRun ==
    (OpenFailed /\ ready = << >>) => proc_pc = "done"

(***************************************************************************)
(* C15                                                                     *)
(***************************************************************************)

(* C15: an overrun is recoverable.  The step that handles one prints the   *)
(* warning (counted in overruns) and, the flag being set, ends with the    *)
(* next read started on the open stream; it changes neither the ring       *)
(* buffer nor the counter nor the channel.  So no run of overruns, however *)
(* long and wherever in the stream, makes the capture loop exit.           *)
C15_OverrunIsRecoverable ==
    [][overruns' # overruns =>
          /\ overruns' = overruns + 1
          /\ is_running => rec_pc' = "reading" /\ audio_stream' = "open"
          /\ UNCHANGED << frame_buffer, chunk_counter, frames_queue,
                          frames_read, signals_put >>]_vars

(* two overruns have been handled, and the capture loop is in a read past  *)
(* the first maxlen frames, the newest frame being in the ring buffer      *)
C15_Witness ==
    /\ overruns >= 2
    /\ frames_read > maxlen
    /\ frame_buffer # << >> /\ frame_buffer[Len(frame_buffer)] = frames_read
    /\ rec_pc = "reading"
    /\ is_running

(***************************************************************************)
(* C16                                                                     *)
(***************************************************************************)

(* the frames of `secs` seconds, rounded down and rounded up *)
Floored(secs) == (config.SAMPLE_RATE * secs) \div config.CHUNK_SIZE
Ceiled(secs) ==
    (config.SAMPLE_RATE * secs + config.CHUNK_SIZE - 1) \div config.CHUNK_SIZE

(* What a run shows of the three counts, the audio source not failing: the *)
(* ring buffer fills up to `capacity`; every window has `clip` frames, and *)
(* the first one is cut at the first Signal that finds `clip` frames; one  *)
(* Signal is put per `overlap` frames.                                     *)
CountsInUse(capacity, clip, overlap) ==
    /\ Len(frame_buffer) = Min(frames_read, capacity)
    /\ \A k \in TaskIds : Len(tasks[k].window) = clip
    /\ tasks # << >> =>
           tasks[1].window[Len(tasks[1].window)]
               = overlap * ((clip + overlap - 1) \div overlap)
    /\ signals_put = frames_read \div overlap
    /\ chunk_counter = frames_read % overlap

(* C16 as claimed: the three counts are the quotients rounded up, and for  *)
(* 16000, 1024, 5, 1 they are 94, 79 and 16.                               *)
C16_CountsRoundedUp ==
    /\ CountsInUse(Ceiled(config.CHUNK_DURATION + config.OVERLAP_DURATION),
                   Ceiled(config.CHUNK_DURATION),
                   Ceiled(config.OVERLAP_DURATION))
    /\ config = SourceConfig => CountsInUse(94, 79, 16)

(* C16: the three counts are the quotients rounded down (int() truncates), *)
(* and for 16000, 1024, 5, 1 they are 93, 78 and 15.                       *)
C16_CountsRoundedDown ==
    /\ CountsInUse(Floored(config.CHUNK_DURATION + config.OVERLAP_DURATION),
                   Floored(config.CHUNK_DURATION),
                   Floored(config.OVERLAP_DURATION))
    /\ config = SourceConfig => CountsInUse(93, 78, 15)

(* the source's configuration after 200 frames: a full ring buffer, tasks  *)
(* dispatched and a counter in mid-period                                  *)
C16_Witness ==
    /\ config = SourceConfig
    /\ frames_read = 200
    /\ Len(frame_buffer) = 93
    /\ Len(tasks) = 8
    /\ chunk_counter = 5

(***************************************************************************)
(* C17                                                                     *)
(***************************************************************************)

FramesOf(window) == { window[i] : i \in 1 .. Len(window) }

(* C17: two windows dispatched one after the other, the ring buffer being  *)
(* full when the first was cut, share exactly chunks_per_processing        *)
(* frames: the last chunks_per_processing frames of the first are the      *)
(* first chunks_per_processing frames of the second.                       *)
C17_WindowsShareOverlap ==
    \A k \in TaskIds :
        (k + 1 \in TaskIds /\ tasks[k].window[Len(tasks[k].window)] >= maxlen)
        => /\ Cardinality(FramesOf(tasks[k].window)
                            \cap FramesOf(tasks[k + 1].window))
                  = chunks_per_processing
           /\ LastOf(tasks[k].window, chunks_per_processing)
                  = SubSeq(tasks[k + 1].window, 1, chunks_per_processing)

(* What the code does instead: the second window starts                    *)
(* chunks_per_processing frames after the first, so the two share          *)
(* FramesPerClip - chunks_per_processing frames.                           *)
C17_WindowsShiftByOverlap ==
    \A k \in TaskIds :
        (k + 1 \in TaskIds /\ tasks[k].window[Len(tasks[k].window)] >= maxlen)
        => /\ Cardinality(FramesOf(tasks[k].window)
                            \cap FramesOf(tasks[k + 1].window))
                  = FramesPerClip - chunks_per_processing
           /\ tasks[k + 1].window[1]
                  = tasks[k].window[1] + chunks_per_processing

(***************************************************************************)
(* C18                                                                     *)
(***************************************************************************)

(* C18, the step that appends: the same step evicts and renders, so no     *)
(* other task's append or eviction comes between; the log after the step   *)
(* is the log before it plus the one new entry, cut to the limit, and the  *)
(* screen shows exactly that, the new entry last.                          *)
C18_AppendRenderStep ==
    Len(all_appended') # Len(all_appended) =>
        /\ Len(all_appended') = Len(all_appended) + 1
        /\ renders' = renders + 1
        /\ recent_transcriptions'
               = LastOf(Append(recent_transcriptions,
                               all_appended'[Len(all_appended')]),
                        max_recent_transcriptions)
        /\ display' = recent_transcriptions'
        /\ display'[Len(display')] = all_appended'[Len(all_appended')]

(* C18, no render without an append, and nothing else touches log or       *)
(* screen                                                                  *)
C18_OnlyAppendsRender ==
    Len(all_appended') = Len(all_appended) =>
        UNCHANGED << recent_transcriptions, display, renders >>

(* C18: append, eviction and render are one critical section, and every    *)
(* render shows the log's contents at that moment, oldest first, the new   *)
(* entry included: the screen always shows the log, which is the last      *)
(* max_recent_transcriptions entries appended, in the order appended.      *)
C18_RenderShowsLog ==
    /\ [](display = recent_transcriptions)
    /\ [](display = LastOf(all_appended, max_recent_transcriptions))
    /\ [][C18_AppendRenderStep /\ C18_OnlyAppendsRender]_vars

(* a task has just appended and rendered while another, whose call has     *)
(* also returned, is waiting to do the same                                *)
C18_Witness ==
    /\ Len(display) >= 2
    /\ \E j \in TaskIds : \E k \in TaskIds :
          /\ tasks[j].pc = "done"
          /\ display[Len(display)].task = j
          /\ tasks[k].pc = "returned"
          /\ k < j

(***************************************************************************)
(* C19                                                                     *)
(***************************************************************************)

(* C19, the dispatch step: the window handed to the new task is the last   *)
(* FramesPerClip frames of the ring buffer as it is at that moment.        *)
C19_WindowAtDispatch ==
    Len(tasks') # Len(tasks) =>
        /\ tasks'[Len(tasks')].window = LastOf(frame_buffer, FramesPerClip)
        /\ Len(tasks'[Len(tasks')].window) = FramesPerClip
        /\ frame_buffer' = frame_buffer

(* C19, every step: no window of an existing task changes, whatever is     *)
(* appended to or evicted from the ring buffer.                            *)
C19_WindowsKept ==
    \A k \in TaskIds : tasks'[k].window = tasks[k].window

(* C19: each window is a point-in-time copy of the last FramesPerClip      *)
(* frames of the ring buffer, and later appends and evictions change       *)
(* neither its contents nor its length.                                    *)
C19_WindowIsACopy == [][C19_WindowAtDispatch /\ C19_WindowsKept]_vars

(* a task is waiting for the backend, and the ring buffer has moved on: it *)
(* no longer holds the oldest frame of the task's window, and holds frames *)
(* newer than its last                                                     *)
C19_Witness ==
    \E k \in TaskIds :
        /\ tasks[k].pc = "calling"
        /\ Len(tasks[k].window) = FramesPerClip
        /\ tasks[k].window[1] < frame_buffer[1]
        /\ tasks[k].window[FramesPerClip] < frame_buffer[Len(frame_buffer)]

(***************************************************************************)
(* C20                                                                     *)
(***************************************************************************)

EndOf(window) == window[Len(window)]

(* C20, taking a Signal: the oldest one in the channel is taken. *)
C20_OldestSignalFirst ==
    SignalTaken => frames_queue' = Tail(frames_queue)

(* C20, the dispatch step: the Signal taken is the next in the order of    *)
(* emission (the n-th Signal handled is the one put at frame               *)
(* n * chunks_per_processing), the new window ends at that frame, the      *)
(* newest captured, and the new task comes after all the earlier ones.     *)
C20_DispatchInSignalOrder ==
    Len(tasks') # Len(tasks) =>
        /\ EndOf(tasks'[Len(tasks')].window)
               = (discarded + Len(tasks) + 1) * chunks_per_processing
        /\ EndOf(tasks'[Len(tasks')].window) = frames_read
        /\ \A j \in TaskIds :
               /\ tasks'[j].window = tasks[j].window
               /\ EndOf(tasks[j].window) <= EndOf(tasks'[Len(tasks')].window)

(* C20, in every state: of two windows, the one dispatched later ends at   *)
(* a frame no earlier than the end of the one dispatched earlier.          *)
C20_WindowEndsOrdered ==
    \A j \in TaskIds : \A k \in TaskIds :
        j < k => EndOf(tasks[j].window) <= EndOf(tasks[k].window)

(* C20: tasks are dispatched in Signal order. *)
C20_DispatchedInSignalOrder ==
    /\ [](C20_WindowEndsOrdered)
    /\ [][C20_OldestSignalFirst /\ C20_DispatchInSignalOrder]_vars

(* three windows dispatched, after Signals that were dropped, the first    *)
(* task still unfinished and the next Signal already in the channel        *)
C20_Witness ==
    /\ Len(tasks) >= 3
    /\ discarded >= 1
    /\ tasks[1].pc # "done"
    /\ frames_queue # << >>

(***************************************************************************)
(* C21                                                                     *)
(***************************************************************************)

(* C21, every step: the handle is stopped and closed only by a step of     *)
(* record_audio, the one in which it ends.                                 *)
C21_ClosedByCaptureOnly ==
    (audio_stream' # audio_stream /\ audio_stream' # "open") =>
        Running(REC) /\ rec_pc' = "done" /\ rec_pc # "done"

(* C21: the handle is closed only by the capture loop, and stop/close is   *)
(* never invoked on a handle that is already closed.                       *)
C21_ClosedOnceByCapture ==
    /\ [](audio_stream # "closed_again")
    /\ [][C21_ClosedByCaptureOnly]_vars

(***************************************************************************)
(* C22                                                                     *)
(***************************************************************************)

(* C22, capture: every frame the source has to deliver is appended, and    *)
(* every Signal due is put.                                                *)
C22_CaptureGoesOn ==
    <>(/\ frames_read = config.frames
       /\ signals_put = config.frames \div chunks_per_processing)

(* C22, dispatch: a Signal in the channel is eventually taken. *)
C22_SignalsTaken == (frames_queue # << >>) ~> (frames_queue = << >>)

(* C22, neither loop waits on a task: record_audio is suspended only on    *)
(* the audio source, process_audio only on the empty channel.              *)
C22_WaitsOnlyOnAudioAndChannel ==
    /\ ~InReady(REC) => rec_pc \in { "opening", "reading" }
    /\ ~InReady(PROC) => proc_pc = "waiting" /\ frames_queue = << >>

(* C22: capture and dispatch make progress whatever the backend does, even *)
(* if no call ever returns: under fair scheduling the capture loop appends *)
(* every frame and puts every Signal, and every Signal put is taken.       *)
C22_ProgressWithoutBackend ==
    /\ C22_CaptureGoesOn
    /\ C22_SignalsTaken
    /\ [](C22_WaitsOnlyOnAudioAndChannel)

(* the whole run is captured and every Signal taken, and not one backend   *)
(* call has returned                                                       *)
C22_Witness ==
    /\ frames_read = config.frames
    /\ signals_put = discarded + Len(tasks)
    /\ frames_queue = << >>
    /\ Len(tasks) >= 2
    /\ \A k \in TaskIds : tasks[k].pc = "calling"

(***************************************************************************)
(* C23                                                                     *)
(***************************************************************************)

RECURSIVE CallsOf(_)
(* backend calls started by the first n tasks *)
CallsOf(n) == IF n = 0 THEN 0 ELSE CallsOf(n - 1) + tasks[n].calls

CallsStarted == CallsOf(Len(tasks))

(* entries of the log's history that task k appended *)
EntriesOf(k) ==
    { i \in 1 .. Len(all_appended) : all_appended[i].task = k }

(* a task is created exactly by a step that takes a Signal while the ring  *)
(* buffer holds at least FramesPerClip frames, and one task by each        *)
C23_OneTaskPerWindow ==
    /\ Len(tasks') # Len(tasks)
          <=> SignalTaken /\ Len(frame_buffer) >= FramesPerClip
    /\ Len(tasks') # Len(tasks) => Len(tasks') = Len(tasks) + 1

(* C23 as claimed: tasks being created only as above, the number of        *)
(* backend calls started always equals the number of tasks.                *)
C23_CallsAlwaysEqualWindows ==
    /\ [](CallsStarted = Len(tasks))
    /\ [][C23_OneTaskPerWindow]_vars

(* C23: one task per dispatched window and at most one backend call and    *)
(* one log entry per task.  The calls started never exceed the windows     *)
(* dispatched, and fall short of them only by the tasks that have been     *)
(* created and have not run yet.                                           *)
C23_OneCallPerWindow ==
    /\ [](/\ \A k \in TaskIds :
                /\ tasks[k].calls = IF tasks[k].pc = "created" THEN 0 ELSE 1
                /\ Cardinality(EntriesOf(k)) <= 1
          /\ CallsStarted
                 = Len(tasks)
                     - Cardinality({ k \in TaskIds : tasks[k].pc = "created" })
          /\ CallsStarted <= Len(tasks))
    /\ [][C23_OneTaskPerWindow]_vars

(* the newest task has been created and has not made its call yet, while   *)
(* an earlier one has made its call and appended its entry                 *)
C23_Witness ==
    /\ Len(tasks) >= 2
    /\ tasks[Len(tasks)].pc = "created"
    /\ CallsStarted = Len(tasks) - 1
    /\ \E k \in TaskIds : tasks[k].pc = "done" /\ Cardinality(EntriesOf(k)) = 1

(***************************************************************************)
(* transcribe_chirp3.py, MicrophoneStream (lines 51-109)                   *)
(***************************************************************************)

(* The state of transcribe_continuous.py, which the other two scripts      *)
(* leave alone.                                                            *)
continuous ==
    << config, is_running, audio_stream, frame_buffer, frames_queue,
       recent_transcriptions, chunk_counter, rec_pc, proc_pc, tasks, ready,
       display, frames_read, overruns, signals_put, discarded, all_appended,
       errors, renders >>

(* What the buffer holds: in_data of one callback, or None. *)
Chunk(n) == [none |-> FALSE, bytes |-> [i \in 1 .. ChunkBytes |-> n]]
Sentinel == [none |-> TRUE, bytes |-> << >>]

(* `chunk is None', lines 93 and 101 *)
IsSentinelNever(chunk) == FALSE
IsSentinel(chunk) == chunk.none

(* b"".join(data), line 109 *)
RECURSIVE JoinBytes(_)
JoinBytes(data) ==
    IF data = << >> THEN << >> ELSE data[1].bytes \o JoinBytes(Tail(data))

(* self._buff.put(None), line 79 *)
PutSentinelNever(buff) == buff
PutSentinel(buff) == Append(buff, Sentinel)

(* _fill_buffer (lines 82-85): the audio thread calls back with the next   *)
(* chunk for as long as the stream is started.                             *)
FillBuffer ==
    /\ mic.active
    /\ Len(mic.put) < MaxChunks
    /\ LET chunk == Chunk(Len(mic.put) + 1)
       IN  mic' = [mic EXCEPT !.buff = Append(@, chunk),
                              !.put = Append(@, chunk)]
    /\ UNCHANGED << continuous, live >>

(* __exit__, lines 76-77: stop_stream() and close(); no callback after.    *)
ExitStopStream ==
    /\ mic.exit_pc = "body"
    /\ mic' = [mic EXCEPT !.active = FALSE, !.exit_pc = "stopped"]
    /\ UNCHANGED << continuous, live >>

(* __exit__, line 78: self.closed = True *)
ExitSetClosed ==
    /\ mic.exit_pc = "stopped"
    /\ mic' = [mic EXCEPT !.closed = TRUE, !.exit_pc = "flagged"]
    /\ UNCHANGED << continuous, live >>

(* __exit__, lines 79-80: the sentinel, then terminate() *)
ExitPutNone ==
    /\ mic.exit_pc = "flagged"
    /\ mic' = [mic EXCEPT !.buff = PutSentinel(@), !.exit_pc = "done"]
    /\ UNCHANGED << continuous, live >>

(* The consumer asks for the next item: the generator starts, or goes on   *)
(* after its yield (line 109), at the head of its loop.                    *)
GeneratorNext ==
    /\ mic.gen_pc = "suspended"
    /\ mic' = [mic EXCEPT !.gen_pc = "while"]
    /\ UNCHANGED << continuous, live >>

(* line 88: while not self.closed *)
GeneratorWhile ==
    /\ mic.gen_pc = "while"
    /\ mic' = [mic EXCEPT !.gen_pc = IF mic.closed THEN "done" ELSE "get"]
    /\ UNCHANGED << continuous, live >>

(* lines 92-95: the blocking get(); None ends the generator *)
GeneratorGet ==
    /\ mic.gen_pc = "get"
    /\ mic.buff # << >>
    /\ LET chunk == Head(mic.buff)
       IN  mic' = IF IsSentinel(chunk)
                  THEN [mic EXCEPT !.buff = Tail(@), !.gen_pc = "done"]
                  ELSE [mic EXCEPT !.buff = Tail(@), !.data = << chunk >>,
                                   !.gen_pc = "drain"]
    /\ UNCHANGED << continuous, live >>

(* lines 98-109: get(block=False) until queue.Empty, then the yield; None  *)
(* returns at once, with what data holds.                                  *)
GeneratorDrain ==
    /\ mic.gen_pc = "drain"
    /\ mic' = IF mic.buff = << >>
              THEN [mic EXCEPT !.yielded = @ \o JoinBytes(mic.data),
                               !.data = << >>, !.gen_pc = "suspended"]
              ELSE LET chunk == Head(mic.buff)
                   IN  IF IsSentinel(chunk)
                       THEN [mic EXCEPT !.buff = Tail(@), !.gen_pc = "done"]
                       ELSE [mic EXCEPT !.buff = Tail(@),
                                        !.data = Append(@, chunk)]
    /\ UNCHANGED << continuous, live >>

Generator == GeneratorNext \/ GeneratorWhile \/ GeneratorGet \/ GeneratorDrain

Exit == ExitSetClosed \/ ExitPutNone

NextMic == FillBuffer \/ ExitStopStream \/ Exit \/ Generator

(* The generator's thread runs whenever it can, and so does __exit__ once  *)
(* it has begun; when the with-block is left, and how many callbacks come  *)
(* before, is open.                                                        *)
FairnessMic == WF_vars(Generator) /\ WF_vars(Exit)

SpecMic == Init /\ [][NextMic]_vars /\ FairnessMic

(***************************************************************************)
(* C24: MicrophoneStream.generator yields the chunks without loss,         *)
(* duplication or reordering: when it has terminated, the concatenation of *)
(* what it yielded is the concatenation, in enqueue order, of every chunk  *)
(* _fill_buffer put before the sentinel.  The code loses chunks: a None    *)
(* found while draining returns without yielding what `data' holds (line   *)
(* 101), and a generator resumed after closed was set ends with the        *)
(* buffer unread (line 88).  C24_YieldsEveryChunk is the claim, which      *)
(* fails; what the code keeps is C24_YieldedIsPrefix: the bytes yielded    *)
(* are always the first bytes enqueued, in order and once.                 *)
(***************************************************************************)
C24_YieldsEveryChunk ==
    mic.gen_pc = "done" => mic.yielded = JoinBytes(mic.put)

C24_YieldedIsPrefix ==
    LET all == JoinBytes(mic.put)
    IN  /\ Len(mic.yielded) <= Len(all)
        /\ mic.yielded = SubSeq(all, 1, Len(mic.yielded))

(***************************************************************************)
(* C25: the generator stops when it dequeues None, and __exit__ always     *)
(* enqueues None: once __exit__ has run, a generator that waits on the     *)
(* buffer, or is resumed later, terminates, and no chunk is behind the     *)
(* sentinel.                                                               *)
(*   C25_NoneEndsGenerator: a step that takes None off the buffer ends the *)
(*   generator and yields nothing.                                         *)
(*   C25_SentinelIsLast: None is only ever the last item of the buffer     *)
(*   (stop_stream() comes before put(None), so no callback follows it).    *)
(*   C25_SentinelWaits: after __exit__, the generator has ended or None is *)
(*   in the buffer, so a blocking get() returns.                           *)
(*   The last conjunct is termination, under FairnessMic.                  *)
(***************************************************************************)
C25_NoneEndsGenerator ==
    (/\ mic.buff # << >>
     /\ mic.buff[1].none
     /\ mic'.buff = Tail(mic.buff))
        => (mic'.gen_pc = "done" /\ mic'.yielded = mic.yielded)

C25_SentinelIsLast ==
    \A i \in 1 .. Len(mic.buff) : mic.buff[i].none => i = Len(mic.buff)

C25_SentinelWaits ==
    mic.exit_pc = "done" =>
        \/ mic.gen_pc = "done"
        \/ (mic.buff # << >> /\ mic.buff[Len(mic.buff)].none)

C25_ExitEndsGenerator ==
    /\ [](C25_SentinelIsLast /\ C25_SentinelWaits)
    /\ [][C25_NoneEndsGenerator]_vars
    /\ ((mic.exit_pc = "done") ~> (mic.gen_pc = "done"))

(* __exit__ has run, audio was enqueued, and the generator has ended by    *)
(* taking the sentinel off the buffer.                                     *)
C25_Witness ==
    /\ mic.exit_pc = "done"
    /\ mic.gen_pc = "done"
    /\ mic.put # << >>
    /\ mic.buff = << >>

(***************************************************************************)
(* transcribe_continuous.py again                                          *)
(***************************************************************************)

(***************************************************************************)
(* C26: warm-up happens once.  The length of frame_buffer never decreases, *)
(* so once a window has been dispatched the buffer holds chunks_per_clip   *)
(* frames for good: every Signal process_audio takes after that creates a  *)
(* task, and none is discarded.                                            *)
(***************************************************************************)
C26_BufferNeverShrinks == Len(frame_buffer') >= Len(frame_buffer)

C26_NoDiscardAfterDispatch ==
    (tasks # << >> /\ SignalTaken) =>
        (Len(tasks') = Len(tasks) + 1 /\ discarded' = discarded)

C26_WarmedUp == tasks # << >> => Len(frame_buffer) >= FramesPerClip

C26_WarmUpOnce ==
    /\ []C26_WarmedUp
    /\ [][C26_BufferNeverShrinks /\ C26_NoDiscardAfterDispatch]_vars

(* Signals were discarded during warm-up, windows were dispatched after,   *)
(* and the full buffer has since evicted frames.                           *)
C26_Witness ==
    /\ discarded >= 1
    /\ Len(tasks) >= 2
    /\ Len(frame_buffer) = maxlen
    /\ frame_buffer[1] > 1

(***************************************************************************)
(* C27: the pipeline does not outlive its capture loop.  When record_audio *)
(* has returned after a read error that is not an overrun (it has closed   *)
(* the stream it had opened) and nothing is left to run (no coroutine is   *)
(* ready, no Signal is in the channel, every transcription task has        *)
(* finished), process_audio has returned too, so that the TaskGroup of     *)
(* run() completes.  In such a state no step is possible any more: a       *)
(* dispatcher that has not returned there waits on the channel for ever.   *)
(***************************************************************************)
C27_DispatcherEndsWithCapture ==
    (/\ rec_pc = "done"
     /\ audio_stream = "closed"
     /\ ready = << >>
     /\ frames_queue = << >>
     /\ Unfinished = {})
        => proc_pc = "done"

(***************************************************************************)
(* transcribe_live.py, TranscriptionLoop (lines 65-166): listen_audio and  *)
(* send_realtime around out_queue, on one event loop.                      *)
(***************************************************************************)

(* {"data": data, "mime_type": "audio/pcm"}, line 96 *)
Message(data) == [data |-> data, mime_type |-> "audio/pcm"]

(* asyncio.Queue.full() with maxsize=5: put() waits while it is true *)
QueueFullNever(queue) == FALSE
QueueFull(queue) == Len(queue) >= maxsize

(* line 95: the thread's read returns the next chunk of the microphone *)
ListenReadReturns ==
    /\ live.listen_pc = "reading"
    /\ live.captured < MaxCaptured
    /\ live' = [live EXCEPT !.captured = @ + 1,
                            !.data = << live.captured + 1 >>,
                            !.listen_pc = "read_ret"]
    /\ UNCHANGED << continuous, mic >>

(* line 96, then lines 94-95: put() suspends while the queue is full;      *)
(* otherwise the message is enqueued and, the flag being set, the next     *)
(* read is started                                                         *)
ListenPut ==
    /\ ~live.cancelled
    /\ \/ live.listen_pc = "read_ret"
       \/ live.listen_pc = "putting" /\ ~QueueFull(live.out_queue)
    /\ live' = IF QueueFull(live.out_queue)
               THEN [live EXCEPT !.listen_pc = "putting"]
               ELSE [live EXCEPT
                        !.out_queue = Append(@, Message(live.data[1])),
                        !.data = << >>,
                        !.listen_pc = IF live.is_running THEN "reading"
                                      ELSE "done"]
    /\ UNCHANGED << continuous, mic >>

(* lines 107-108: get() returns the oldest message and send is awaited *)
SendGet ==
    /\ ~live.cancelled
    /\ live.send_pc = "getting"
    /\ live.out_queue # << >>
    /\ live' = [live EXCEPT !.msg = << Head(live.out_queue) >>,
                            !.out_queue = Tail(@),
                            !.send_pc = "sending"]
    /\ UNCHANGED << continuous, mic >>

(* line 108, then lines 106-107: session.send returns, and get() is        *)
(* awaited again                                                           *)
SendReturns ==
    /\ ~live.cancelled
    /\ live.send_pc = "sending"
    /\ live' = [live EXCEPT !.sent = @ \o live.msg,
                            !.msg = << >>,
                            !.send_pc = IF live.is_running THEN "getting"
                                        ELSE "done"]
    /\ UNCHANGED << continuous, mic >>

(* lines 147-151: Ctrl+C, or a failure in one of the tasks, and the        *)
(* TaskGroup cancels its tasks                                             *)
CancelTasks ==
    /\ ~live.cancelled
    /\ live' = [live EXCEPT !.cancelled = TRUE]
    /\ UNCHANGED << continuous, mic >>

(* check_for_exit, lines 130-131 *)
CheckForExitCancelled ==
    /\ live.cancelled
    /\ live.is_running
    /\ live' = [live EXCEPT !.is_running = FALSE]
    /\ UNCHANGED << continuous, mic >>

(* listen_audio, lines 97-101: CancelledError at its await; the chunk it   *)
(* holds, if any, goes with it                                             *)
ListenCancelled ==
    /\ live.cancelled
    /\ live.listen_pc # "done"
    /\ live' = [live EXCEPT !.listen_pc = "done"]
    /\ UNCHANGED << continuous, mic >>

(* send_realtime, lines 109-110: CancelledError at its await; a send under *)
(* way has delivered its message, or has not                               *)
SendCancelled ==
    /\ live.cancelled
    /\ live.send_pc # "done"
    /\ \E delivered \in BOOLEAN :
           live' = [live EXCEPT
                       !.sent = IF delivered THEN @ \o live.msg ELSE @,
                       !.send_pc = "done"]
    /\ UNCHANGED << continuous, mic >>

NextQueue ==
    \/ ListenReadReturns \/ ListenPut \/ SendGet \/ SendReturns
    \/ CancelTasks \/ CheckForExitCancelled \/ ListenCancelled
    \/ SendCancelled

SpecQueue == Init /\ [][NextQueue]_vars

(***************************************************************************)
(* C28: out_queue never holds more than 5 messages; when it is full        *)
(* listen_audio waits, keeping its chunk; and send_realtime forwards the   *)
(* messages in the order of capture, each at most once, none skipped while *)
(* the loops run.                                                          *)
(*   C28_AtMostFive: the bound.                                            *)
(*   C28_WaitsWhenFull: with the queue full, the step of listen_audio      *)
(*   after a read suspends it in put(), queue and chunk unchanged.         *)
(*   C28_SentInOrder: what has been sent is the messages of the first      *)
(*   chunks captured, in order, each once.                                 *)
(*   C28_NoneSkipped: until the tasks are cancelled, the messages sent,    *)
(*   the one being sent, the queue and the chunk in listen_audio's hands   *)
(*   are together all the chunks captured, in order.                       *)
(***************************************************************************)
C28_AtMostFive == Len(live.out_queue) <= 5

C28_WaitsWhenFull ==
    (/\ ~live.cancelled
     /\ Len(live.out_queue) = 5
     /\ live.listen_pc = "read_ret"
     /\ live'.listen_pc # "read_ret")
        => /\ live'.listen_pc = "putting"
           /\ live'.out_queue = live.out_queue
           /\ live'.data = live.data

C28_SentInOrder ==
    /\ Len(live.sent) <= live.captured
    /\ live.sent = [i \in 1 .. Len(live.sent) |-> Message(i)]

C28_NoneSkipped ==
    ~live.cancelled =>
        live.sent \o live.msg \o live.out_queue
              \o [i \in 1 .. Len(live.data) |-> Message(live.data[i])]
            = [i \in 1 .. live.captured |-> Message(i)]

C28_BoundedFifoQueue ==
    /\ [](C28_AtMostFive /\ C28_SentInOrder /\ C28_NoneSkipped)
    /\ [][C28_WaitsWhenFull]_vars

(* the queue is full, listen_audio waits in put() with the next chunk, and *)
(* send_realtime has sent the first                                        *)
C28_Witness ==
    /\ Len(live.out_queue) = 5
    /\ live.listen_pc = "putting"
    /\ live.data # << >>
    /\ Len(live.sent) >= 1
    /\ ~live.cancelled

====
